---- MODULE Spec2Model ----
(***************************************************************************)
(* create_toc_hypl.py: a clickable table of contents is laid out from a    *)
(* PDF's bookmarks, prepended to the document, linked and the bookmarks    *)
(* shifted by the number of TOC pages.                                     *)
(*                                                                         *)
(* Text is a sequence of one-character strings.  Lengths are kept in       *)
(* thousandths of a point, so that fitz.get_text_length (font size times   *)
(* the sum of the glyph advances, which Helvetica gives in 1/1000 em) and  *)
(* y_spacing = font_size * 1.5 are exact integers.                         *)
(***************************************************************************)
EXTENDS Integers, Sequences, FiniteSets, TLC

VARIABLES
    pc,                    \* position in main / in the function under test
    toc,                   \* doc.get_toc(simple=True) of the input document
    font_size,             \* int(sys.argv[3])
    max_width,             \* points
    lines_per_page,
    toc_entries,           \* result of extract_toc_entries
    next_entry,            \* entries consumed by the loop of paginate_wrapped_entries
    paginated_entries,
    current_page_entries,
    current_line_count,
    page_index,            \* enumerate index of generate_toc_pages, -1 before the loop
    entry_index,           \* entries of the current page already drawn
    y,                     \* thousandths of a point
    toc_pages,             \* pages of toc_doc
    drawn,                 \* the insert_text calls, in order
    link_targets,
    toc_page_count,        \* main's len(paginated_entries)
    final_pages,           \* pages of the merged document
    final_links,           \* the insert_link calls, in order
    text,                  \* argument of wrap_text
    lines,                 \* result of wrap_text
    bookmarks,             \* argument of shift_bookmark_pages
    offset,                \* argument of shift_bookmark_pages
    shifted                \* result of shift_bookmark_pages / doc.set_toc

vars == <<pc, toc, font_size, max_width, lines_per_page, toc_entries, next_entry,
          paginated_entries, current_page_entries, current_line_count,
          page_index, entry_index, y, toc_pages, drawn, link_targets,
          toc_page_count, final_pages, final_links, text, lines,
          bookmarks, offset, shifted>>

(***************************************************************************)
(* Bounds of the model.                                                    *)
(***************************************************************************)
MaxEntries == 3     \* bookmarks in the input outline
MaxCap == 3         \* lines_per_page handed to the packer
MaxLen == 5         \* characters of a title handed to wrap_text
MaxBm == 3          \* entries of a bookmark list handed to shift_bookmark_pages
MaxOffset == 2      \* offset handed to shift_bookmark_pages
DocPages == 6       \* pages of the input document

(***************************************************************************)
(* Text and its measure.                                                   *)
(***************************************************************************)
Chars == {"W", "i", " "}

DigitChars == <<"0", "1", "2", "3", "4", "5", "6", "7", "8", "9">>

\* Helvetica advance widths, 1/1000 em
GlyphWidth(c) ==
    CASE c = "W" -> 944
      [] c = "i" -> 222
      [] c = " " -> 278
      [] c = "." -> 278
      [] OTHER   -> 556

RECURSIVE SumWidths(_)
SumWidths(s) == IF s = <<>> THEN 0 ELSE GlyphWidth(Head(s)) + SumWidths(Tail(s))

\* fitz.get_text_length(text, fontsize=font_size), thousandths of a point
get_text_length(s, fs) == fs * SumWidths(s)

\* str.split(): maximal runs of non-whitespace characters
RECURSIVE SplitLoop(_, _, _)
SplitLoop(s, word, words) ==
    IF s = <<>>
    THEN IF word = <<>> THEN words ELSE Append(words, word)
    ELSE IF Head(s) = " "
         THEN SplitLoop(Tail(s), <<>>, IF word = <<>> THEN words ELSE Append(words, word))
         ELSE SplitLoop(Tail(s), Append(word, Head(s)), words)

split(s) == SplitLoop(s, <<>>, <<>>)

\* str.strip()
RECURSIVE lstrip(_)
lstrip(s) == IF s # <<>> /\ Head(s) = " " THEN lstrip(Tail(s)) ELSE s

RECURSIVE rstrip(_)
rstrip(s) ==
    IF s # <<>> /\ s[Len(s)] = " " THEN rstrip(SubSeq(s, 1, Len(s) - 1)) ELSE s

strip(s) == rstrip(lstrip(s))

\* str(n), n >= 0
RECURSIVE str(_)
str(n) ==
    IF n < 10 THEN <<DigitChars[n + 1]>>
    ELSE str(n \div 10) \o <<DigitChars[(n % 10) + 1]>>

(***************************************************************************)
(* wrap_text                                                               *)
(***************************************************************************)
FitsAlways(test_line, fs, mw) == TRUE

\* line 36: get_text_length(test_line, fontsize=font_size) <= max_width
Fits(test_line, fs, mw) == get_text_length(test_line, fs) <= mw * 1000

RECURSIVE WrapLoop(_, _, _, _, _)
WrapLoop(words, ls, current_line, fs, mw) ==
    IF words = <<>>
    THEN IF current_line # <<>> THEN Append(ls, current_line) ELSE ls
    ELSE LET word == Head(words)
             test_line == current_line
                          \o (IF current_line # <<>> THEN <<" ">> ELSE <<>>)
                          \o word
         IN  IF Fits(test_line, fs, mw)
             THEN WrapLoop(Tail(words), ls, test_line, fs, mw)
             ELSE WrapLoop(Tail(words),
                           IF current_line # <<>> THEN Append(ls, current_line) ELSE ls,
                           word, fs, mw)

wrap_text(s, fs, mw) == WrapLoop(split(s), <<>>, <<>>, fs, mw)

(***************************************************************************)
(* shift_bookmark_pages                                                    *)
(***************************************************************************)
ShiftEntryNoOffset(bm, off) == <<bm[1], bm[2], bm[3]>>

\* lines 127-128
ShiftEntry(bm, off) == <<bm[1], bm[2], bm[3] + off>>

RECURSIVE ShiftLoop(_, _, _)
ShiftLoop(bms, off, acc) ==
    IF bms = <<>> THEN acc
    ELSE LET bm == Head(bms)
         IN  IF Len(bm) >= 3
             THEN ShiftLoop(Tail(bms), off, Append(acc, ShiftEntry(bm, off)))
             ELSE ShiftLoop(Tail(bms), off, acc)

shift_bookmark_pages(bms, off) == ShiftLoop(bms, off, <<>>)

(***************************************************************************)
(* paginate_wrapped_entries                                                *)
(***************************************************************************)
indent_of(level) == 20 * (level - 1)

OverflowsAlone(count, line_count, cap) == line_count > cap

\* line 58
Overflows(count, line_count, cap) == count + line_count > cap

ClosePageDrop(pages, page) == pages

\* line 59
ClosePage(pages, page) == Append(pages, page)

\* one iteration of the loop of lines 51-64
PaginateEntry ==
    /\ pc = "paginate"
    /\ next_entry < Len(toc_entries)
    /\ LET entry == toc_entries[next_entry + 1]
           level == entry[1]
           title == entry[2]
           indent == indent_of(level)
           available_width == max_width - indent
           wrapped_lines == wrap_text(title, font_size, available_width)
           line_count == Len(wrapped_lines)
           over == Overflows(current_line_count, line_count, lines_per_page)
       IN  /\ paginated_entries' =
                 IF over THEN ClosePage(paginated_entries, current_page_entries)
                 ELSE paginated_entries
           /\ current_page_entries' =
                 Append(IF over THEN <<>> ELSE current_page_entries,
                        <<entry, wrapped_lines>>)
           /\ current_line_count' =
                 (IF over THEN 0 ELSE current_line_count) + line_count
    /\ next_entry' = next_entry + 1
    /\ UNCHANGED <<pc, toc, font_size, max_width, lines_per_page, toc_entries,
                   page_index, entry_index, y, toc_pages, drawn, link_targets,
                   toc_page_count, final_pages, final_links, text, lines,
                   bookmarks, offset, shifted>>

\* lines 66-69, and main's line 157
PaginateReturn ==
    /\ pc = "paginate"
    /\ next_entry = Len(toc_entries)
    /\ paginated_entries' =
          IF current_page_entries # <<>>
          THEN Append(paginated_entries, current_page_entries)
          ELSE paginated_entries
    /\ toc_page_count' = Len(paginated_entries')
    /\ pc' = "generate"
    /\ UNCHANGED <<toc, font_size, max_width, lines_per_page, toc_entries,
                   next_entry, current_page_entries, current_line_count,
                   page_index, entry_index, y, toc_pages, drawn, link_targets,
                   final_pages, final_links, text, lines,
                   bookmarks, offset, shifted>>

(***************************************************************************)
(* generate_toc_pages                                                      *)
(***************************************************************************)
left_margin == 50
right_margin == 60
top_margin == 50
page_width == 595
page_height == 842

\* line 77, thousandths of a point
y_spacing(fs) == fs * 1500

\* line 87: the number shown is target_page + toc_page_count + 1
page_number(target_page, n) == target_page + n + 1

\* lines 97-98, for a line starting at x (points) of width line_width
dot_count(x, line_width, page_number_width, fs) ==
    LET max_x_for_dots == (page_width - right_margin - 5) * 1000 - page_number_width
        dots_space == max_x_for_dots - (x * 1000 + line_width + 10000)
        dot_width == get_text_length(<<".">>, fs)
    IN  IF dots_space <= 0 THEN 0 ELSE dots_space \div dot_width

\* lines 93-108: the insert_text calls of one entry, first line at first_line_y
RECURSIVE DrawLines(_, _, _, _, _, _, _, _)
DrawLines(wrapped_lines, i, pg, x, first_line_y, target_page, n, fs) ==
    IF i >= Len(wrapped_lines) THEN <<>>
    ELSE LET line == wrapped_lines[i + 1]
             yy == first_line_y + i * y_spacing(fs)
             page_number_str == str(page_number(target_page, n))
             page_number_width == get_text_length(page_number_str, fs)
             line_width == get_text_length(line, fs)
             here ==
                IF i = Len(wrapped_lines) - 1
                THEN << [kind |-> "last", page |-> pg, x |-> x * 1000, y |-> yy,
                         text |-> line \o <<" ">>,
                         dots |-> dot_count(x, line_width, page_number_width, fs),
                         target_page |-> target_page],
                        [kind |-> "number", page |-> pg,
                         x |-> (page_width - right_margin) * 1000 - page_number_width,
                         y |-> yy, text |-> page_number_str, dots |-> 0,
                         target_page |-> target_page] >>
                ELSE << [kind |-> "line", page |-> pg, x |-> x * 1000, y |-> yy,
                         text |-> line, dots |-> 0, target_page |-> target_page] >>
         IN  here \o DrawLines(wrapped_lines, i + 1, pg, x, first_line_y,
                               target_page, n, fs)

\* line 110: fitz.Rect(x, first_line_y - font_size, page_width - right_margin, y)
link_rect(x, first_line_y, y_end, fs) ==
    [x0 |-> x * 1000, y0 |-> first_line_y - fs * 1000,
     x1 |-> (page_width - right_margin) * 1000, y1 |-> y_end]

LinkTargetFirstPage(pg, rect, target_page) == <<0, rect, target_page>>

\* line 111
LinkTarget(pg, rect, target_page) == <<pg, rect, target_page>>

\* lines 81-83: the next page of the enumerate loop
GenNewPage ==
    /\ pc = "generate"
    /\ page_index + 1 < Len(paginated_entries)
    /\ IF page_index = -1 THEN TRUE
       ELSE entry_index = Len(paginated_entries[page_index + 1])
    /\ page_index' = page_index + 1
    /\ entry_index' = 0
    /\ toc_pages' = toc_pages + 1
    /\ y' = top_margin * 1000
    /\ UNCHANGED <<pc, toc, font_size, max_width, lines_per_page, toc_entries,
                   next_entry, paginated_entries, current_page_entries,
                   current_line_count, drawn, link_targets, toc_page_count,
                   final_pages, final_links, text, lines, bookmarks, offset,
                   shifted>>

\* lines 84-111: one entry of the current page
GenEntry ==
    /\ pc = "generate"
    /\ page_index >= 0
    /\ entry_index < Len(paginated_entries[page_index + 1])
    /\ LET item == paginated_entries[page_index + 1][entry_index + 1]
           level == item[1][1]
           target_page == item[1][3]
           wrapped_lines == item[2]
           indent == indent_of(level)
           x == left_margin + indent
           first_line_y == y
           y_end == y + Len(wrapped_lines) * y_spacing(font_size)
           rect == link_rect(x, first_line_y, y_end, font_size)
       IN  /\ drawn' = drawn \o DrawLines(wrapped_lines, 0, page_index, x,
                                          first_line_y, target_page,
                                          Len(paginated_entries), font_size)
           /\ y' = y_end
           /\ link_targets' =
                 Append(link_targets, LinkTarget(page_index, rect, target_page))
    /\ entry_index' = entry_index + 1
    /\ UNCHANGED <<pc, toc, font_size, max_width, lines_per_page, toc_entries,
                   next_entry, paginated_entries, current_page_entries,
                   current_line_count, page_index, toc_pages, toc_page_count,
                   final_pages, final_links, text, lines, bookmarks, offset,
                   shifted>>

\* line 113
GenReturn ==
    /\ pc = "generate"
    /\ page_index + 1 = Len(paginated_entries)
    /\ IF page_index = -1 THEN TRUE
       ELSE entry_index = Len(paginated_entries[page_index + 1])
    /\ pc' = "merge"
    /\ UNCHANGED <<toc, font_size, max_width, lines_per_page, toc_entries,
                   next_entry, paginated_entries, current_page_entries,
                   current_line_count, page_index, entry_index, y, toc_pages,
                   drawn, link_targets, toc_page_count, final_pages,
                   final_links, text, lines, bookmarks, offset, shifted>>

(***************************************************************************)
(* add_toc_hyperlinks, add_existing_bookmarks, main                        *)
(***************************************************************************)
LinkDestNoOffset(target_page, n) == target_page

\* line 120
LinkDest(target_page, n) == target_page + n

\* lines 116-121
add_toc_hyperlinks(targets, n) ==
    [i \in 1..Len(targets) |->
        [on |-> targets[i][1], from |-> targets[i][2],
         page |-> LinkDest(targets[i][3], n)]]

\* lines 22-28
extract_toc_entries(t) ==
    [i \in 1..Len(t) |-> <<t[i][1], strip(t[i][2]), t[i][3] - 1>>]

\* lines 149-150
Extract ==
    /\ pc = "extract"
    /\ toc_entries' = extract_toc_entries(toc)
    /\ bookmarks' = toc
    /\ pc' = "paginate"
    /\ UNCHANGED <<toc, font_size, max_width, lines_per_page, next_entry,
                   paginated_entries, current_page_entries, current_line_count,
                   page_index, entry_index, y, toc_pages, drawn, link_targets,
                   toc_page_count, final_pages, final_links, text, lines,
                   offset, shifted>>

\* lines 163-165
Merge ==
    /\ pc = "merge"
    /\ final_pages' = toc_pages + DocPages
    /\ pc' = "links"
    /\ UNCHANGED <<toc, font_size, max_width, lines_per_page, toc_entries,
                   next_entry, paginated_entries, current_page_entries,
                   current_line_count, page_index, entry_index, y, toc_pages,
                   drawn, link_targets, toc_page_count, final_links, text,
                   lines, bookmarks, offset, shifted>>

\* line 168
AddLinks ==
    /\ pc = "links"
    /\ final_links' = add_toc_hyperlinks(link_targets, toc_page_count)
    /\ pc' = "bookmarks"
    /\ UNCHANGED <<toc, font_size, max_width, lines_per_page, toc_entries,
                   next_entry, paginated_entries, current_page_entries,
                   current_line_count, page_index, entry_index, y, toc_pages,
                   drawn, link_targets, toc_page_count, final_pages, text,
                   lines, bookmarks, offset, shifted>>

\* line 171, lines 131-133
AddBookmarks ==
    /\ pc = "bookmarks"
    /\ offset' = toc_page_count
    /\ shifted' = shift_bookmark_pages(bookmarks, toc_page_count)
    /\ pc' = "save"
    /\ UNCHANGED <<toc, font_size, max_width, lines_per_page, toc_entries,
                   next_entry, paginated_entries, current_page_entries,
                   current_line_count, page_index, entry_index, y, toc_pages,
                   drawn, link_targets, toc_page_count, final_pages,
                   final_links, text, lines, bookmarks>>

\* lines 174-176
Save ==
    /\ pc = "save"
    /\ pc' = "done"
    /\ UNCHANGED <<toc, font_size, max_width, lines_per_page, toc_entries,
                   next_entry, paginated_entries, current_page_entries,
                   current_line_count, page_index, entry_index, y, toc_pages,
                   drawn, link_targets, toc_page_count, final_pages,
                   final_links, text, lines, bookmarks, offset, shifted>>

(***************************************************************************)
(* Specifications                                                          *)
(***************************************************************************)
SeqsUpTo(S, n) == UNION {[1..k -> S] : k \in 0..n}

\* outline entries [level, title, 1-based page] of the input document
TocSamples ==
    { <<1, <<"W">>, 1>>,
      <<2, <<" ", "W", " ", "i">>, 2>>,
      <<1, <<"i">>, 6>>,
      <<1, <<"i", " ", "W", " ", "W">>, 3>>,
      <<2, <<>>, 4>> }

TocSamplesMain ==
    { <<1, <<"W", " ", "W", " ", "W", " ", "W", " ", "W", " ", "W", " ", "W">>, 1>>,
      <<1, <<"W">>, 2>>,
      <<2, <<"i", " ", "W">>, 3>> }

FontSizes == {10, 12}
FontSizesMain == {12, 120}
Widths == {15, 30, 40}
WrapWidths == {-5, 2, 10, 12, 18, 30}

\* bookmark lists handed to shift_bookmark_pages; get_toc(simple=False) has a 4th field
BmSamples ==
    { <<>>, <<1>>, <<1, <<"W">>>>, <<1, <<"W">>, 1>>, <<2, <<"i">>, 3>>,
      <<1, <<"W">>, 2, 0>> }

Fresh ==
    /\ toc_entries = <<>>
    /\ next_entry = 0
    /\ paginated_entries = <<>>
    /\ current_page_entries = <<>>
    /\ current_line_count = 0
    /\ page_index = -1
    /\ entry_index = 0
    /\ y = 0
    /\ toc_pages = 0
    /\ drawn = <<>>
    /\ link_targets = <<>>
    /\ toc_page_count = 0
    /\ final_pages = 0
    /\ final_links = <<>>
    /\ lines = <<>>
    /\ shifted = <<>>

\* the pipeline of main, the packer's capacity and the column width drawn
Init ==
    /\ pc = "extract"
    /\ toc \in SeqsUpTo(TocSamples, MaxEntries)
    /\ font_size \in FontSizes
    /\ max_width \in Widths
    /\ lines_per_page \in 1..MaxCap
    /\ text = <<>>
    /\ bookmarks = <<>>
    /\ offset = 0
    /\ Fresh

Next ==
    \/ Extract
    \/ PaginateEntry
    \/ PaginateReturn
    \/ GenNewPage
    \/ GenEntry
    \/ GenReturn
    \/ Merge
    \/ AddLinks
    \/ AddBookmarks
    \/ Save

Spec == Init /\ [][Next]_vars

\* main as written: lines 143, 152-153
InitMain ==
    /\ pc = "extract"
    /\ toc \in SeqsUpTo(TocSamplesMain, MaxEntries)
    /\ font_size \in FontSizesMain
    /\ max_width = page_width - 120
    /\ lines_per_page = 38
    /\ text = <<>>
    /\ bookmarks = <<>>
    /\ offset = 0
    /\ Fresh

SpecMain == InitMain /\ [][Next]_vars

\* wrap_text alone
InitWrap ==
    /\ pc = "wrap"
    /\ text \in SeqsUpTo(Chars, MaxLen)
    /\ font_size \in FontSizes
    /\ max_width \in WrapWidths
    /\ toc = <<>>
    /\ lines_per_page = 0
    /\ bookmarks = <<>>
    /\ offset = 0
    /\ Fresh

CallWrap ==
    /\ pc = "wrap"
    /\ lines' = wrap_text(text, font_size, max_width)
    /\ pc' = "wrapped"
    /\ UNCHANGED <<toc, font_size, max_width, lines_per_page, toc_entries,
                   next_entry, paginated_entries, current_page_entries,
                   current_line_count, page_index, entry_index, y, toc_pages,
                   drawn, link_targets, toc_page_count, final_pages,
                   final_links, text, bookmarks, offset, shifted>>

NextWrap == CallWrap

SpecWrap == InitWrap /\ [][NextWrap]_vars

\* shift_bookmark_pages alone, then applied to its own result with offset 0
InitShift ==
    /\ pc = "shift"
    /\ bookmarks \in SeqsUpTo(BmSamples, MaxBm)
    /\ offset \in -1..MaxOffset
    /\ toc = <<>>
    /\ font_size = 0
    /\ max_width = 0
    /\ lines_per_page = 0
    /\ text = <<>>
    /\ Fresh

CallShift ==
    /\ pc = "shift"
    /\ shifted' = shift_bookmark_pages(bookmarks, offset)
    /\ pc' = "shifted"
    /\ UNCHANGED <<toc, font_size, max_width, lines_per_page, toc_entries,
                   next_entry, paginated_entries, current_page_entries,
                   current_line_count, page_index, entry_index, y, toc_pages,
                   drawn, link_targets, toc_page_count, final_pages,
                   final_links, text, lines, bookmarks, offset>>

Reshift ==
    /\ pc = "shifted"
    /\ bookmarks' = shifted
    /\ offset' = 0
    /\ shifted' = shift_bookmark_pages(shifted, 0)
    /\ pc' = "reshifted"
    /\ UNCHANGED <<toc, font_size, max_width, lines_per_page, toc_entries,
                   next_entry, paginated_entries, current_page_entries,
                   current_line_count, page_index, entry_index, y, toc_pages,
                   drawn, link_targets, toc_page_count, final_pages,
                   final_links, text, lines>>

NextShift == CallShift \/ Reshift

SpecShift == InitShift /\ [][NextShift]_vars

(***************************************************************************)
(* Properties                                                              *)
(***************************************************************************)
RECURSIVE Flatten(_)
Flatten(pages) == IF pages = <<>> THEN <<>> ELSE Head(pages) \o Flatten(Tail(pages))

RECURSIVE PageLines(_)
PageLines(page) ==
    IF page = <<>> THEN 0 ELSE Len(Head(page)[2]) + PageLines(Tail(page))

RECURSIVE TotalLines(_)
TotalLines(pages) ==
    IF pages = <<>> THEN 0 ELSE PageLines(Head(pages)) + TotalLines(Tail(pages))

RECURSIVE EntriesBefore(_, _)
EntriesBefore(pages, p) ==
    IF p <= 1 THEN 0 ELSE Len(pages[p - 1]) + EntriesBefore(pages, p - 1)

DigitOf(c) ==
    CASE c = "0" -> 0 [] c = "1" -> 1 [] c = "2" -> 2 [] c = "3" -> 3
      [] c = "4" -> 4 [] c = "5" -> 5 [] c = "6" -> 6 [] c = "7" -> 7
      [] c = "8" -> 8 [] c = "9" -> 9

RECURSIVE DigitsValue(_)
DigitsValue(s) ==
    IF s = <<>> THEN 0
    ELSE 10 * DigitsValue(SubSeq(s, 1, Len(s) - 1)) + DigitOf(s[Len(s)])

RECURSIVE WordsOfLines(_)
WordsOfLines(ls) ==
    IF ls = <<>> THEN <<>> ELSE split(Head(ls)) \o WordsOfLines(Tail(ls))

\* what the packer is handed for the i-th entry: the entry and its wrapped lines
WrappedEntry(i) ==
    <<toc_entries[i],
      wrap_text(toc_entries[i][2], font_size, max_width - 20 * (toc_entries[i][1] - 1))>>

Packed == pc \notin {"extract", "paginate"}

IsNumber(d) == d.kind = "number"
HasLines(item) == item[2] # <<>>
WellFormed(bm) == Len(bm) >= 3

\* C1: with N the number of pages the packer returned, every entry's link goes
\* to targetPage + N, and the page number drawn on the last line of every entry
\* that has a line reads targetPage + N + 1.
C1_OffsetIsPageCount ==
    pc = "done" =>
        LET N == Len(paginated_entries)
            numbers == SelectSeq(drawn, IsNumber)
            shown == SelectSeq(Flatten(paginated_entries), HasLines)
        IN  /\ Len(final_links) = Len(toc_entries)
            /\ \A i \in 1..Len(toc_entries) :
                  final_links[i].page = toc_entries[i][3] + N
            /\ Len(numbers) = Len(shown)
            /\ \A k \in 1..Len(numbers) :
                  /\ numbers[k].target_page = shown[k][1][3]
                  /\ DigitsValue(numbers[k].text) = shown[k][1][3] + N + 1

\* C1 witness: targets 0, 1, 5 packed into 3 pages give destinations 3, 4, 8
C1_Witness ==
    /\ pc = "done"
    /\ Len(paginated_entries) = 3
    /\ [i \in 1..Len(toc_entries) |-> toc_entries[i][3]] = <<0, 1, 5>>
    /\ [i \in 1..Len(final_links) |-> final_links[i].page] = <<3, 4, 8>>
    /\ \E d \in 1..Len(drawn) : drawn[d].kind = "number" /\ drawn[d].text = <<"9">>

\* C2: the packer emits no empty page, at most as many pages as entries, and
\* no page for an empty input.
C2_NoEmptyPage ==
    /\ \A p \in 1..Len(paginated_entries) : paginated_entries[p] # <<>>
    /\ Packed => /\ Len(paginated_entries) <= Len(toc_entries)
                 /\ toc_entries = <<>> => toc_page_count = 0

\* C3: the pages, concatenated in page order, are exactly the input entries,
\* each once, in input order, each with all of its wrapped lines; the line
\* total of the pages is the sum of the entries' line counts.
C3_PackingConservation ==
    /\ pc = "paginate" =>
          Flatten(paginated_entries) \o current_page_entries
             = [i \in 1..next_entry |-> WrappedEntry(i)]
    /\ Packed =>
          /\ Flatten(paginated_entries)
                = [i \in 1..Len(toc_entries) |-> WrappedEntry(i)]
          /\ TotalLines(paginated_entries)
                = PageLines([i \in 1..Len(toc_entries) |-> WrappedEntry(i)])

\* C3 witness: several pages, one of them with two entries, one entry of two lines
C3_Witness ==
    /\ pc = "done"
    /\ Len(paginated_entries) >= 2
    /\ \E p \in 1..Len(paginated_entries) : Len(paginated_entries[p]) >= 2
    /\ \E p \in 1..Len(paginated_entries) :
          \E k \in 1..Len(paginated_entries[p]) : Len(paginated_entries[p][k][2]) >= 2

\* C4: every page has at most lines_per_page lines, except a page that holds a
\* single entry of more lines than that; such an entry is alone on its page.
C4_PageCapacity ==
    Packed =>
        \A p \in 1..Len(paginated_entries) :
            LET page == paginated_entries[p]
            IN  /\ \/ PageLines(page) <= lines_per_page
                   \/ Len(page) = 1 /\ Len(page[1][2]) > lines_per_page
                /\ (\E k \in 1..Len(page) : Len(page[k][2]) > lines_per_page)
                      => Len(page) = 1

\* C4 witness: an oversized entry alone on a page, and a page filled by two entries
C4_Witness ==
    /\ pc = "done"
    /\ \E p \in 1..Len(paginated_entries) :
          /\ Len(paginated_entries[p]) = 1
          /\ Len(paginated_entries[p][1][2]) > lines_per_page
    /\ \E p \in 1..Len(paginated_entries) :
          /\ Len(paginated_entries[p]) = 2
          /\ PageLines(paginated_entries[p]) = lines_per_page

\* C5: one link per input entry, in input order, registered on the TOC page
\* that holds the entry.
C5_LinkCoverage ==
    pc = "done" =>
        /\ Len(link_targets) = Len(toc_entries)
        /\ Len(final_links) = Len(toc_entries)
        /\ \A i \in 1..Len(toc_entries) :
              \E p \in 1..Len(paginated_entries) :
                 LET k == i - EntriesBefore(paginated_entries, p)
                 IN  /\ k \in 1..Len(paginated_entries[p])
                     /\ paginated_entries[p][k][1] = toc_entries[i]
                     /\ link_targets[i][1] = p - 1
                     /\ link_targets[i][3] = toc_entries[i][3]
                     /\ final_links[i].on = p - 1
                     /\ final_links[i].from = link_targets[i][2]

\* C5 witness: three entries on more than one page, one of them of several lines
C5_Witness ==
    /\ pc = "done"
    /\ Len(final_links) = 3
    /\ Len(paginated_entries) = 2
    /\ final_links[3].on = 1
    /\ \E i \in 1..3 : Len(WrappedEntry(i)[2]) >= 2

\* C6: the result holds exactly the entries of at least three fields, in order,
\* level and title kept and page raised by the offset; shifting the result by 0
\* returns it unchanged.
C6_ShiftBookmarks ==
    /\ pc = "shifted" =>
          LET kept == SelectSeq(bookmarks, WellFormed)
          IN  /\ Len(shifted) = Len(kept)
              /\ \A i \in 1..Len(kept) :
                    shifted[i] = <<kept[i][1], kept[i][2], kept[i][3] + offset>>
    /\ pc = "reshifted" => shifted = bookmarks

\* C6 witness: a malformed entry filtered out, two entries shifted by a non-zero offset
C6_Witness ==
    /\ pc = "shifted"
    /\ offset # 0
    /\ Len(shifted) = 2
    /\ Len(bookmarks) = 3
    /\ shifted[1] # shifted[2]

\* C7: when max_width is at least the width of the widest word, every returned
\* line measures at most max_width and the words of the lines, in order, are
\* the words of the title.
C7_WrapCorrectness ==
    (/\ pc = "wrapped"
     /\ \A w \in 1..Len(split(text)) :
           get_text_length(split(text)[w], font_size) <= max_width * 1000)
    => /\ \A l \in 1..Len(lines) :
             get_text_length(lines[l], font_size) <= max_width * 1000
       /\ WordsOfLines(lines) = split(text)

\* C7 witness: a title of three words wrapped into two lines that fit
C7_Witness ==
    /\ pc = "wrapped"
    /\ Len(split(text)) = 3
    /\ Len(lines) = 2
    /\ \A w \in 1..Len(split(text)) :
          get_text_length(split(text)[w], font_size) <= max_width * 1000

\* C8: wrap_text returns at least one line: a single word wider than max_width
\* gives that word as the only line, a title without words a single empty line.
C8_WrapNeverEmpty ==
    pc = "wrapped" =>
        /\ Len(lines) >= 1
        /\ split(text) = <<>> => lines = << <<>> >>
        /\ (/\ Len(split(text)) = 1
            /\ get_text_length(split(text)[1], font_size) > max_width * 1000)
              => lines = <<split(text)[1]>>

\* C9: on a page that holds no entry of more lines than lines_per_page, every
\* line is drawn at a y that does not exceed the page height.
C9_LinesWithinPage ==
    \A d \in 1..Len(drawn) :
        LET page == paginated_entries[drawn[d].page + 1]
        IN  (\A k \in 1..Len(page) : Len(page[k][2]) <= lines_per_page)
               => drawn[d].y <= page_height * 1000

RectsOverlap(r, q) ==
    /\ (IF r.x0 > q.x0 THEN r.x0 ELSE q.x0) < (IF r.x1 < q.x1 THEN r.x1 ELSE q.x1)
    /\ (IF r.y0 > q.y0 THEN r.y0 ELSE q.y0) < (IF r.y1 < q.y1 THEN r.y1 ELSE q.y1)

\* C10: on a TOC page the link rectangles of two distinct entries (each with at
\* least one drawn line) do not overlap, and an entry's rectangle ends no lower
\* than where the rectangle of the next entry on the page begins.
C10_LinkRectsDisjoint ==
    \A i, j \in 1..Len(link_targets) :
        (/\ i < j
         /\ link_targets[i][1] = link_targets[j][1]
         /\ link_targets[i][2].y1 - link_targets[i][2].y0 > font_size * 1000
         /\ link_targets[j][2].y1 - link_targets[j][2].y0 > font_size * 1000)
        => /\ ~RectsOverlap(link_targets[i][2], link_targets[j][2])
           /\ j = i + 1 => link_targets[i][2].y1 <= link_targets[j][2].y0

====
